---------------------------- MODULE Spec2Model ----------------------------
(***************************************************************************)
(* Model of the dnd build calculator (src/src/main.rs, src/src/math.rs).   *)
(*                                                                         *)
(* Probabilities are f64 in the program; here they are exact rationals     *)
(* <<n, d>> (d > 0), so that "sums to 1" and "equals" are exact            *)
(* statements.  A PMF (HashMap<u32, f64>) is a function whose DOMAIN is    *)
(* the key set of the map; a key whose mass is 0 is still a key.           *)
(***************************************************************************)
EXTENDS Integers, Sequences, FiniteSets, TLC

VARIABLES
    build_a,          \* Dnd.build_a
    build_b,          \* Dnd.build_b
    sim_ac,           \* Dnd.sim_ac
    desired_min_dmg,  \* Dnd.desired_min_dmg
    state_changed,    \* Dnd.state_changed
    last,             \* history: the input the last frame handled, and whether it recomputed
    edits,            \* history: number of inputs handled so far
    fn,               \* a call of a function of math.rs: which function
    args,             \* ... its arguments
    out               \* ... its result

vars == <<build_a, build_b, sim_ac, desired_min_dmg, state_changed, last, edits, fn, args, out>>
appVars == <<build_a, build_b, sim_ac, desired_min_dmg, state_changed, last, edits>>
callVars == <<fn, args, out>>

----------------------------------------------------------------------------
(* Bounds of the model.                                                    *)

\* largest die count an input or an edit sets (besides the u8 overflow input)
MaxCount == 1
\* largest number of attacks a build is grown to
MaxAttacks == 2
\* longest list handed to convolve_many directly
MaxList == 3
\* largest outcome value of the directly enumerated PMFs
MaxVal == 2
\* capacity of the exact arithmetic: bits of the denominator of one attack's
\* damage distribution
ArithBits == 16
\* ... and of the product of the two builds' denominators
PairBits == 28
\* number of inputs (clicks, drags, toggles) a run of the application handles
MaxEdits == 2

----------------------------------------------------------------------------
(* Program constants.                                                      *)

AC_MIN == 10
AC_MAX == 24
\* u8 arithmetic (Attack.flat, the die counts, ac) is modulo 2^8
U8Mod == 256
\* faces of the d20 attack roll; every chance in hit_chance is a multiple of 1/20
D20Faces == 20
\* i32::MAX and i32::MIN, the range of ab and ac in hit_chance
MaxI32 == 2147483647
MinI32 == 0 - MaxI32 - 1

\* enum Die, in the order of Attack.dice
Die == <<4, 6, 8, 10, 20>>
NDice == Len(Die)

----------------------------------------------------------------------------
(* Exact rationals: <<n, d>> with d > 0; Rat(n, d) is in lowest terms.      *)

Abs(n) == IF n < 0 THEN 0 - n ELSE n

RECURSIVE GCD(_, _)
GCD(a, b) == IF b = 0 THEN a ELSE GCD(b, a % b)

Rat(n, d) == LET g == GCD(Abs(n), d) IN <<n \div g, d \div g>>
Zero == <<0, 1>>
One == <<1, 1>>
FromInt(k) == <<k, 1>>

RAdd(p, q) ==
    LET g == GCD(p[2], q[2])
    IN  Rat(p[1] * (q[2] \div g) + q[1] * (p[2] \div g), (p[2] \div g) * q[2])
RNeg(p) == <<0 - p[1], p[2]>>
RSub(p, q) == RAdd(p, RNeg(q))
RMul(p, q) ==
    LET g1 == GCD(Abs(p[1]), q[2])
        g2 == GCD(Abs(q[1]), p[2])
    IN  Rat((p[1] \div g1) * (q[1] \div g2), (p[2] \div g2) * (q[2] \div g1))
RLeq(p, q) == RSub(q, p)[1] >= 0
RLess(p, q) == RSub(q, p)[1] > 0
RMin(p, q) == IF RLeq(p, q) THEN p ELSE q
RMax(p, q) == IF RLeq(p, q) THEN q ELSE p
\* f64::clamp(lo, hi)
RClamp(p, lo, hi) == RMax(lo, RMin(p, hi))
\* i32::clamp(lo, hi)
IClamp(x, lo, hi) == IF x < lo THEN lo ELSE IF x > hi THEN hi ELSE x

\* the element of a one-element set: The({e(x) : x \in {v}}) is e with x bound
\* to the value of v, computed once
The(S) == CHOOSE x \in S : TRUE

MinOf(S) == CHOOSE x \in S : \A y \in S : x <= y
MaxOf(S) == 0 - MinOf({0 - x : x \in S})

\* the sum of the integers f[x], x in S (a set of integers); the range lo..hi
\* is halved so that the evaluation stays shallow
RECURSIVE ISumRange(_, _, _, _)
ISumRange(f, S, lo, hi) ==
    IF lo = hi THEN (IF lo \in S THEN f[lo] ELSE 0)
    ELSE LET mid == (lo + hi) \div 2
         IN  ISumRange(f, S, lo, mid) + ISumRange(f, S, mid + 1, hi)
ISum(f, S) == IF S = {} THEN 0 ELSE ISumRange(f, S, MinOf(S), MaxOf(S))

\* Iterator::sum over the rationals f[x], x in S
RECURSIVE RSumRange(_, _, _, _)
RSumRange(f, S, lo, hi) ==
    IF lo = hi THEN (IF lo \in S THEN f[lo] ELSE Zero)
    ELSE LET mid == (lo + hi) \div 2
         IN  RAdd(RSumRange(f, S, lo, mid), RSumRange(f, S, mid + 1, hi))
RSum(f, S) == IF S = {} THEN Zero ELSE RSumRange(f, S, MinOf(S), MaxOf(S))

\* the greatest common divisor of g and the integers f[x], x in S
RECURSIVE GCDRange(_, _, _, _)
GCDRange(f, S, lo, hi) ==
    IF lo = hi THEN (IF lo \in S THEN f[lo] ELSE 0)
    ELSE LET mid == (lo + hi) \div 2
         IN  GCD(GCDRange(f, S, lo, mid), GCDRange(f, S, mid + 1, hi))

----------------------------------------------------------------------------
(* math.rs: the PMF algebra.                                               *)
(*                                                                         *)
(* A PMF maps each key to its probability <<n, D>>, all entries of one PMF *)
(* over the same denominator D, the least one that serves them all: two    *)
(* PMFs are the same map exactly when they are equal here.  Prob(pmf, k)   *)
(* is the entry in lowest terms.                                           *)

EmptyPMF == <<>>
Keys(pmf) == DOMAIN pmf
Den(pmf) == IF Keys(pmf) = {} THEN 1 ELSE pmf[MinOf(Keys(pmf))][2]
Num(pmf, k) == pmf[k][1]
Prob(pmf, k) == Rat(pmf[k][1], pmf[k][2])
\* every entry in lowest terms
Probs(pmf) == [k \in Keys(pmf) |-> Prob(pmf, k)]
\* total probability mass of a PMF
Mass(pmf) == Rat(ISum([k \in Keys(pmf) |-> Num(pmf, k)], Keys(pmf)), Den(pmf))

\* the map with the entries f[k], k in S, each computed once and stored
RECURSIVE Entries(_, _, _, _)
Entries(f, S, lo, hi) ==
    IF lo = hi THEN (IF lo \in S THEN lo :> f[lo] ELSE EmptyPMF)
    ELSE LET mid == (lo + hi) \div 2
         IN  Entries(f, S, lo, mid) @@ Entries(f, S, mid + 1, hi)
Collect(f) ==
    IF DOMAIN f = {} THEN EmptyPMF
    ELSE Entries(f, DOMAIN f, MinOf(DOMAIN f), MaxOf(DOMAIN f))

\* the PMF with probability w[k] / d on every key k of w
Normalize(c, d) ==
    The({Collect([k \in DOMAIN c |-> <<c[k] \div g, d \div g>>]) :
            g \in {GCD(GCDRange(c, DOMAIN c, MinOf(DOMAIN c), MaxOf(DOMAIN c)), d)}})
Pmf(w, d) ==
    IF DOMAIN w = {} THEN EmptyPMF ELSE The({Normalize(c, d) : c \in {Collect(w)}})

\* one twentieth, the weight of one d20 face
Face == Rat(1, D20Faces)

\* i32 addition and subtraction: whether the exact result leaves the range
\* (a build with overflow checks panics there), and the result as a build
\* without them computes it, modulo 2^32
AddI32Overflows(x, y) == (y > 0 /\ x > MaxI32 - y) \/ (y < 0 /\ x < MinI32 - y)
AddI32(x, y) ==
    IF y > 0 /\ x > MaxI32 - y THEN (x + MinI32) + (y + MinI32)
    ELSE IF y < 0 /\ x < MinI32 - y THEN (x - MinI32) + (y - MinI32)
    ELSE x + y
SubI32Overflows(x, y) == (y < 0 /\ x > MaxI32 + y) \/ (y > 0 /\ x < MinI32 + y)
SubI32(x, y) ==
    IF y < 0 /\ x > MaxI32 + y THEN (x + MinI32) - (y - MinI32)
    ELSE IF y > 0 /\ x < MinI32 + y THEN (x - MinI32) - (y + MinI32)
    ELSE x - y

\* the closed form alone: (21 - ac) / 20, without the attack bonus
hit_chance_no_bonus(ab, ac) ==
    RClamp(Rat(21 - IClamp(ac, 2, 20), D20Faces), Zero, One)

\* the second adjustment subtracts a face instead of adding one
hit_chance_far_subtracts(ab, ac) ==
    LET needed_roll == IClamp(SubI32(ac, ab), 2, 20)
        possible_hits == 21 - needed_roll
        chance0 == Rat(possible_hits, D20Faces)
        chance1 == IF AddI32(ab, 1) >= ac THEN RSub(chance0, Face) ELSE chance0
        chance2 == IF AddI32(ab, 20) < ac THEN RSub(chance1, Face) ELSE chance1
    IN  RClamp(chance2, Zero, One)

hit_chance(ab, ac) ==
    LET needed_roll == IClamp(SubI32(ac, ab), 2, 20)
        possible_hits == 21 - needed_roll
        chance0 == Rat(possible_hits, D20Faces)
        chance1 == IF AddI32(ab, 1) >= ac THEN RSub(chance0, Face) ELSE chance0
        chance2 == IF AddI32(ab, 20) < ac THEN RAdd(chance1, Face) ELSE chance1
    IN  RClamp(chance2, Zero, One)

\* `ac - ab`, `ab + 1` or `ab + 20` overflows i32
hit_chance_overflows(ab, ac) ==
    SubI32Overflows(ac, ab) \/ AddI32Overflows(ab, 1) \/ AddI32Overflows(ab, 20)

\* the product px * px instead of px * py
convolve_lopsided(a, b) ==
    LET keys == {x + y : x \in Keys(a), y \in Keys(b)}
        xs(k) == {x \in Keys(a) : (k - x) \in Keys(b)}
    IN  Pmf([k \in keys |-> ISum([x \in xs(k) |-> Num(a, x) * Num(a, x)], xs(k))],
            Den(a) * Den(a))

\* result[x + y] += px * py, for every (x, px) of a and (y, py) of b
convolve(a, b) ==
    LET keys == {x + y : x \in Keys(a), y \in Keys(b)}
        xs(k) == {x \in Keys(a) : (k - x) \in Keys(b)}
    IN  Pmf([k \in keys |-> ISum([x \in xs(k) |-> Num(a, x) * Num(b, k - x)], xs(k))],
            Den(a) * Den(b))

\* Iterator::reduce: the fold of convolve over pmfs[i..], starting from acc
RECURSIVE Reduce(_, _, _)
Reduce(acc, pmfs, i) ==
    IF i > Len(pmfs) THEN acc
    ELSE The({Reduce(next, pmfs, i + 1) : next \in {convolve(acc, pmfs[i])}})

\* the unit mass at 0 for the empty list instead of the empty map
convolve_many_unit(pmfs) ==
    The({IF Len(list) = 0 THEN (0 :> One) ELSE Reduce(list[1], list, 2) :
            list \in {pmfs}})

convolve_many(pmfs) ==
    The({IF Len(list) = 0 THEN EmptyPMF ELSE Reduce(list[1], list, 2) :
            list \in {pmfs}})

scale(pmf, factor) ==
    Pmf([k \in Keys(pmf) |-> Num(pmf, k) * factor[1]], Den(pmf) * factor[2])

shift(pmf, offset) ==
    Collect([k \in {j + offset : j \in Keys(pmf)} |-> pmf[k - offset]])

die_pmf(sides) == Pmf([i \in 1..sides |-> 1], sides)

Max2(x, y) == IF x >= y THEN x ELSE y

\* result[max(x, y)] += px * py, for every (x, px) and (y, py) of pmf
BestOfTwo(pmf) ==
    LET ys(x, m) == {y \in Keys(pmf) : Max2(x, y) = m}
        row(x, m) == ISum([y \in ys(x, m) |-> Num(pmf, x) * Num(pmf, y)], ys(x, m))
    IN  Pmf([m \in Keys(pmf) |-> ISum([x \in Keys(pmf) |-> row(x, m)], Keys(pmf))],
            Den(pmf) * Den(pmf))
best_of_two(pmf) == The({BestOfTwo(p) : p \in {pmf}})

\* u8 multiplication as a build without overflow checks computes it
MulU8(x, y) == (x * y) % U8Mod
\* u8 multiplication overflows (a build with overflow checks panics there)
MulU8Overflows(x, y) == x * y >= U8Mod

\* flat_map(|(die, count)| repeat(die_pmf(die)).take(n(count))), from die i on
RECURSIVE DicePmfs(_, _)
DicePmfs(counts, i) ==
    IF i > NDice THEN <<>>
    ELSE [j \in 1..counts[i] |-> die_pmf(Die[i])] \o DicePmfs(counts, i + 1)

base_counts(attack) == attack.dice
crit_counts(attack) == [i \in 1..NDice |-> MulU8(2, attack.dice[i])]

\* *pmf.entry(k).or_default() += v, for every (k, v) of add
Merge(pmf, add) ==
    LET g == GCD(Den(pmf), Den(add))
        mp == Den(add) \div g
        ma == Den(pmf) \div g
    IN  Pmf([k \in Keys(pmf) \cup Keys(add) |->
                (IF k \in Keys(pmf) THEN Num(pmf, k) * mp ELSE 0)
                + (IF k \in Keys(add) THEN Num(add, k) * ma ELSE 0)],
            Den(pmf) * mp)

attack_pmf(attack, ac, crit_enabled, savage_attacker) ==
    LET base_dmg_dist == convolve_many(DicePmfs(base_counts(attack), 1))
        base_shifted == shift(base_dmg_dist, attack.flat)
        base_pmf == IF savage_attacker THEN best_of_two(base_shifted) ELSE base_shifted
        crit_dmg_dist == convolve_many(DicePmfs(crit_counts(attack), 1))
        crit_shifted == shift(crit_dmg_dist, attack.flat)
        crit_pmf == IF savage_attacker THEN best_of_two(crit_shifted) ELSE crit_shifted
        hit == hit_chance(attack.ab, ac)
        crit_chance == IF crit_enabled THEN Face ELSE Zero
        split_hit_chance == RSub(hit, crit_chance)
        pmf == Merge(scale(base_pmf, split_hit_chance), scale(crit_pmf, crit_chance))
    IN  Merge(pmf, 0 :> RSub(One, hit))

\* `2 * count` overflows u8 for some die of the attack
attack_pmf_overflows(attack) == \E i \in 1..NDice : MulU8Overflows(2, attack.dice[i])

mean(pmf) == Rat(ISum([val \in Keys(pmf) |-> val * Num(pmf, val)], Keys(pmf)), Den(pmf))

variance(pmf) ==
    LET m == mean(pmf)
        term(val) ==
            LET diff == RSub(FromInt(val), m) IN RMul(RMul(diff, diff), Prob(pmf, val))
    IN  RSum([val \in Keys(pmf) |-> term(val)], Keys(pmf))

\* sqrt(variance(pmf)).  The square root of a rational is in general not a
\* rational: the value is kept as the expression, its argument stored, and
\* sqrt(x) = 0 exactly when x = 0.
std_dev(pmf) == [sqrt_variance_of |-> pmf]
StdDevIsZero(sd) == variance(sd.sqrt_variance_of) = Zero

\* a_val >= b_val instead of a_val > b_val
greater_than_or_equal(a, b) ==
    LET below(a_val) == {b_val \in Keys(b) : a_val >= b_val}
        row(a_val) == ISum([b_val \in below(a_val) |-> Num(a, a_val) * Num(b, b_val)],
                           below(a_val))
    IN  Rat(ISum([a_val \in Keys(a) |-> row(a_val)], Keys(a)), Den(a) * Den(b))

\* prob += a_prob * b_prob, for every pair with a_val > b_val
greater_than(a, b) ==
    LET below(a_val) == {b_val \in Keys(b) : a_val > b_val}
        row(a_val) == ISum([b_val \in below(a_val) |-> Num(a, a_val) * Num(b, b_val)],
                           below(a_val))
    IN  Rat(ISum([a_val \in Keys(a) |-> row(a_val)], Keys(a)), Den(a) * Den(b))

chance_at_least(pmf, threshold) ==
    LET vals == {val \in Keys(pmf) : val >= threshold}
    IN  Rat(ISum([val \in vals |-> Num(pmf, val)], vals), Den(pmf))

\* values.sort_by_key(|(val, _)| val): the keys of S within lo..hi, ascending
RECURSIVE SortedRange(_, _, _)
SortedRange(S, lo, hi) ==
    IF lo = hi THEN (IF lo \in S THEN <<lo>> ELSE <<>>)
    ELSE LET mid == (lo + hi) \div 2
         IN  SortedRange(S, lo, mid) \o SortedRange(S, mid + 1, hi)
Sorted(S) == IF S = {} THEN <<>> ELSE SortedRange(S, MinOf(S), MaxOf(S))
\* the same keys, descending: an iteration order the map may as well have
Unsorted(S) == LET up == Sorted(S) IN [i \in 1..Len(up) |-> up[Len(up) + 1 - i]]

\* the loop of cdf over `values` from position i on; `cumulative` is the
\* numerator of the running sum over Den(pmf)
RECURSIVE CdfLoop(_, _, _, _, _)
CdfLoop(pmf, values, i, cumulative, result) ==
    IF i > Len(values) THEN result
    ELSE LET c == cumulative + Num(pmf, values[i])
         IN  CdfLoop(pmf, values, i + 1, c,
                     Append(result, <<values[i], Rat(c, Den(pmf))>>))

cdf_unsorted(pmf) ==
    The({CdfLoop(pmf, values, 1, 0, <<>>) : values \in {Unsorted(Keys(pmf))}})

cdf(pmf) ==
    The({CdfLoop(pmf, values, 1, 0, <<>>) : values \in {Sorted(Keys(pmf))}})

\* attacks.iter().map(|a| attack_pmf(a, ac, crit_enabled, savage)).collect()
RECURSIVE AttackPmfsFrom(_, _, _)
AttackPmfsFrom(build, ac, i) ==
    IF i > Len(build.attacks) THEN <<>>
    ELSE <<attack_pmf(build.attacks[i], ac, build.crit_enabled, build.savage)>>
            \o AttackPmfsFrom(build, ac, i + 1)
AttackPmfs(build, ac) == AttackPmfsFrom(build, ac, 1)

BuildPmf(build, ac) == convolve_many(AttackPmfs(build, ac))

calc_build_stats(build, sim_ac_, desired_min_dmg_) ==
    The({[pmf |-> pmf,
          cdf |-> cdf(pmf),
          mean |-> mean(pmf),
          std_dev |-> std_dev(pmf),
          greater_then_chance |-> Zero,
          min_dmg_chance |-> chance_at_least(pmf, desired_min_dmg_)] :
            pmf \in {BuildPmf(build, sim_ac_)}})

\* (AC_MIN..AC_MAX).map(|ac| mean(pmf of the build at ac)).collect()
calc_build_means(build) ==
    [i \in 1..(AC_MAX - AC_MIN) |->
        The({mean(pmf) : pmf \in {BuildPmf(build, AC_MIN + i - 1)}})]

----------------------------------------------------------------------------
(* Initial state, and calls of hit_chance and attack_pmf.                   *)

AbInputs == (0 - 5)..35
AcInputs == 0..40

\* main(): the attack both builds start with.  The program starts with 40 d4,
\* 20 d6 and 1 d8, more dice than the exact arithmetic carries; the model
\* starts with MaxCount d4.
InitAttack == [ab |-> 10, flat |-> 4, dice |-> <<MaxCount, 0, 0, 0, 0>>]

InitBuild ==
    [attacks |-> <<InitAttack>>, savage |-> FALSE, crit_enabled |-> TRUE,
     pmf |-> EmptyPMF, cdf |-> <<>>, mean |-> Zero, std_dev |-> std_dev(EmptyPMF),
     greater_then_chance |-> Zero, min_dmg_chance |-> Zero]

InitApp ==
    /\ build_a = InitBuild
    /\ build_b = InitBuild
    /\ sim_ac = 18
    /\ desired_min_dmg = 15
    /\ state_changed = TRUE
    /\ last = [ev |-> "none", recomputed |-> FALSE]
    /\ edits = 0

InitCall ==
    /\ fn = "none"
    /\ args = <<>>
    /\ out = <<>>

Init == InitApp /\ InitCall

CallHitChance ==
    /\ fn = "none"
    /\ \E ab \in AbInputs, ac \in AcInputs :
        /\ fn' = "hit_chance"
        /\ args' = [ab |-> ab, ac |-> ac]
        /\ out' = hit_chance(ab, ac)
    /\ UNCHANGED appVars

SpecHit == Init /\ [][CallHitChance]_vars

\* ceil(log2(sides)) of each die: what one copy adds to a denominator
DieBits == <<2, 3, 3, 4, 5>>
RECURSIVE PoolBits(_, _)
PoolBits(counts, i) ==
    IF i > NDice THEN 0 ELSE counts[i] * DieBits[i] + PoolBits(counts, i + 1)
\* denominator bits of one attack's PMF before the d20 weights: the critical
\* pool doubles the dice, best_of_two squares the denominator
AttackBits(attack, savage) == PoolBits(attack.dice, 1) * (IF savage THEN 4 ELSE 2)

\* the count whose doubling is exactly 2^8
HalfU8 == U8Mod \div 2

SmallPools == [1..NDice -> 0..MaxCount]
OverflowPools == {[i \in 1..NDice |-> IF i = 1 THEN HalfU8 ELSE 0]}
AtkAbInputs == {0, 10}
AtkAcInputs == {2, 15, 30}
FlatInputs == {0, 4}

Attacks(pools) == [ab : AtkAbInputs, flat : FlatInputs, dice : pools]

NonEmptyPool(attack) == \E i \in 1..NDice : attack.dice[i] > 0
ZeroPool(attack) == \A i \in 1..NDice : attack.dice[i] = 0

\* attack_pmf as a build computes it: with overflow checks the doubling of a
\* count >= 128 panics, without them it wraps.  The base pool of such an
\* attack (128 dice) is beyond the exact arithmetic, so the wrapping build is
\* called only with attacks whose doubling does not overflow.
CallAttackPmf ==
    /\ fn = "none"
    /\ \E overflow_checks \in BOOLEAN, ac \in AtkAcInputs, crit_enabled \in BOOLEAN,
          savage \in BOOLEAN,
          attack \in Attacks(SmallPools) \cup Attacks(OverflowPools) :
        /\ attack_pmf_overflows(attack) => overflow_checks
        /\ ~attack_pmf_overflows(attack) => AttackBits(attack, savage) <= ArithBits
        /\ fn' = "attack_pmf"
        /\ args' = [attack |-> attack, ac |-> ac, crit_enabled |-> crit_enabled,
                    savage |-> savage, overflow_checks |-> overflow_checks]
        /\ out' = IF overflow_checks /\ attack_pmf_overflows(attack)
                  THEN [panicked |-> TRUE, pmf |-> EmptyPMF]
                  ELSE [panicked |-> FALSE,
                        pmf |-> attack_pmf(attack, ac, crit_enabled, savage)]
    /\ UNCHANGED appVars

SpecAttack == Init /\ [][CallAttackPmf]_vars

----------------------------------------------------------------------------
(* Claims about hit_chance and attack_pmf.                                 *)

\* the tabletop rule: a natural 20 hits, a natural 1 misses, otherwise the
\* roll plus the attack bonus must reach the armor class
TruthTable(ab, ac) ==
    Rat(Cardinality({r \in 1..D20Faces : r = D20Faces \/ (r # 1 /\ r + ab >= ac)}),
        D20Faces)

\* C1: for every ab and ac, hit_chance(ab, ac) is the fraction of d20 faces
\* that hit under the tabletop truth table.
C1_HitChanceIsTruthTable ==
    fn = "hit_chance" => out = TruthTable(args.ab, args.ac)

\* C2: for every attack with a non-empty dice pool, attack_pmf returns a PMF
\* whose probabilities sum to exactly 1.
C2_AttackPmfSumsToOne ==
    (fn = "attack_pmf" /\ NonEmptyPool(args.attack))
        => (~out.panicked /\ Mass(out.pmf) = One)

\* C3: an attack with all dice counts zero does not fail and yields a complete
\* PMF: the hit mass on outcome `flat`, the miss mass on 0, summing to 1.
C3_DegenerateAttackComplete ==
    (fn = "attack_pmf" /\ ZeroPool(args.attack))
        => /\ ~out.panicked
           /\ Mass(out.pmf) = One
           /\ Probs(out.pmf) =
                IF args.attack.flat = 0 THEN (0 :> One)
                ELSE (args.attack.flat :> hit_chance(args.attack.ab, args.ac))
                        @@ (0 :> RSub(One, hit_chance(args.attack.ab, args.ac)))

\* the end-to-end scenario: ab=10, flat=4, one d4, ac=15, crits on, savage off
Scenario ==
    [attack |-> [ab |-> 10, flat |-> 4, dice |-> <<1, 0, 0, 0, 0>>], ac |-> 15,
     crit_enabled |-> TRUE, savage |-> FALSE]
ScenarioCalled ==
    /\ fn = "attack_pmf"
    /\ [attack |-> args.attack, ac |-> args.ac, crit_enabled |-> args.crit_enabled,
        savage |-> args.savage] = Scenario
    /\ ~out.panicked

\* number of ways two d4 sum to 2, 3, ..., 8
Ways2d4 == <<1, 2, 3, 4, 3, 2, 1>>
\* the scenario's PMF for a hit chance h: miss mass 1 - h on 0, non-crit mass
\* h - 1/20 uniform on 4 + d4 (5..8), crit mass 1/20 on 4 + 2d4 (6..12)
ScenarioPmf(h) ==
    [v \in {0} \cup 5..12 |->
        IF v = 0 THEN RSub(One, h)
        ELSE RAdd(IF v <= 8 THEN RMul(RSub(h, Face), Rat(1, 4)) ELSE Zero,
                  IF v >= 6 THEN RMul(Face, Rat(Ways2d4[v - 5], 16)) ELSE Zero)]

\* C6 as stated: hit_chance(10,15) = 0.30, P(damage=0) = 0.70, non-crit mass
\* 0.25 on 4 + d4, crit mass 0.05 on 4 + 2d4.
C6_ScenarioAsStated ==
    ScenarioCalled
        => /\ hit_chance(10, 15) = Rat(3, 10)
           /\ Prob(out.pmf, 0) = Rat(7, 10)
           /\ Probs(out.pmf) = ScenarioPmf(Rat(3, 10))

\* C6 amended: hit_chance(10,15) = 0.80 (16 of 20 faces reach 15 with +10),
\* P(damage=0) = 0.20, non-crit mass 0.75 on 4 + d4, crit mass 0.05 on 4 + 2d4.
C6_ScenarioAmended ==
    ScenarioCalled
        => /\ hit_chance(10, 15) = Rat(4, 5)
           /\ Prob(out.pmf, 0) = Rat(1, 5)
           /\ Probs(out.pmf) = ScenarioPmf(Rat(4, 5))

C6_Witness == ScenarioCalled /\ Keys(out.pmf) = {0} \cup 5..12

\* every armor class a u8 holds
U8AcInputs == 0..(U8Mod - 1)
\* attack bonuses around the armor classes, and at both ends of i32
I32AbInputs ==
    (0 - 25)..(U8Mod + 24)
        \cup {MinI32, MinI32 + 1, MinI32 + U8Mod - 1, MinI32 + U8Mod,
              MaxI32 - 20, MaxI32 - 19, MaxI32 - 1, MaxI32}

\* hit_chance as a build computes it: with overflow checks an i32 overflow
\* panics, without them the operation wraps
CallHitChanceI32 ==
    /\ fn = "none"
    /\ \E overflow_checks \in BOOLEAN, ab \in I32AbInputs, ac \in U8AcInputs :
        /\ fn' = "hit_chance_i32"
        /\ args' = [ab |-> ab, ac |-> ac, overflow_checks |-> overflow_checks]
        /\ out' = IF overflow_checks /\ hit_chance_overflows(ab, ac)
                  THEN [panicked |-> TRUE, chance |-> Zero]
                  ELSE [panicked |-> FALSE, chance |-> hit_chance(ab, ac)]
    /\ UNCHANGED appVars

NextNonNegative == CallHitChanceI32 \/ CallAttackPmf
SpecNonNegative == Init /\ [][NextNonNegative]_vars

\* C13: no probability of a PMF of attack_pmf is negative: for every ab,
\* every ac in 0..255 and both values of crit_enabled the hit chance a call
\* returns is at least crit_chance, so split_hit_chance >= 0 and
\* 1 - hit_chance >= 0, and every mass of a returned PMF lies in [0, 1].
\* (With overflow checks hit_chance panics for the ab at the ends of i32 and
\* returns no chance; without them it returns 19/20 or 1 there.)
C13_NoNegativeMass ==
    /\ (fn = "hit_chance_i32" /\ ~out.panicked) =>
            \A crit_enabled \in BOOLEAN :
                LET crit_chance == IF crit_enabled THEN Face ELSE Zero
                IN  /\ RLeq(crit_chance, out.chance)
                    /\ RLeq(Zero, RSub(out.chance, crit_chance))
                    /\ RLeq(Zero, RSub(One, out.chance))
    /\ (fn = "attack_pmf" /\ ~out.panicked) =>
            \A k \in Keys(out.pmf) :
                RLeq(Zero, Prob(out.pmf, k)) /\ RLeq(Prob(out.pmf, k), One)

\* the tight case: only a natural 20 hits, so split_hit_chance is exactly 0
C13_Witness ==
    /\ fn = "hit_chance_i32"
    /\ ~out.panicked
    /\ ~hit_chance_overflows(args.ab, args.ac)
    /\ args.ac - args.ab = 20
    /\ out.chance = Face

\* the largest damage of a critical hit: flat once, every die twice
RECURSIVE MaxCritRoll(_, _)
MaxCritRoll(counts, i) ==
    IF i > NDice THEN 0 ELSE 2 * counts[i] * Die[i] + MaxCritRoll(counts, i + 1)

\* C12: for every die count a u8 holds, the critical pool has exactly
\* 2 * count copies of the die and the doubling neither wraps nor fails; the
\* flat bonus is added once (the largest outcome is flat plus twice the dice).
C12_CritPoolDoubled ==
    fn = "attack_pmf" =>
        /\ ~out.panicked
        /\ \A i \in 1..NDice : crit_counts(args.attack)[i] = 2 * args.attack.dice[i]
        /\ NonEmptyPool(args.attack) =>
                MaxOf(Keys(out.pmf)) = args.attack.flat + MaxCritRoll(args.attack.dice, 1)

----------------------------------------------------------------------------
(* Calls of the PMF algebra.                                               *)

\* every (sub-)PMF over keys 0..MaxVal with quarters as probabilities and
\* mass <= 1
PmfInputs ==
    {Pmf(w, 4) : w \in {v \in UNION {[S -> 0..4] : S \in SUBSET (0..MaxVal)} :
                            ISum(v, DOMAIN v) <= 4}}

\* PMFs as the program builds them, for the lists of convolve_many
SamplePmfs ==
    {die_pmf(4), die_pmf(6), Pmf((0 :> 1) @@ (1 :> 1), 2), Pmf((0 :> 3) @@ (3 :> 1), 4),
     attack_pmf([ab |-> 10, flat |-> 4, dice |-> <<1, 0, 0, 0, 0>>], 15, TRUE, FALSE)}
\* ceil(log2(n))
RECURSIVE Bits(_)
Bits(n) == IF n <= 1 THEN 0 ELSE 1 + Bits((n + 1) \div 2)
\* denominator bits of the convolution of pmfs[i..]
RECURSIVE ListBits(_, _)
ListBits(pmfs, i) ==
    IF i > Len(pmfs) THEN 0 ELSE Bits(Den(pmfs[i])) + ListBits(pmfs, i + 1)
\* the lists whose convolution the exact arithmetic carries
ListInputs ==
    {pmfs \in UNION {[1..n -> SamplePmfs] : n \in 0..MaxList} :
        ListBits(pmfs, 1) <= PairBits}

CallConvolve ==
    /\ fn = "none"
    /\ \E a \in PmfInputs, b \in PmfInputs :
        /\ fn' = "convolve"
        /\ args' = [a |-> a, b |-> b]
        /\ out' = convolve(a, b)
    /\ UNCHANGED appVars

CallConvolveMany ==
    /\ fn = "none"
    /\ \E pmfs \in ListInputs :
        /\ fn' = "convolve_many"
        /\ args' = [pmfs |-> pmfs]
        /\ out' = convolve_many(pmfs)
    /\ UNCHANGED appVars

CallGreaterThan ==
    /\ fn = "none"
    /\ \E a \in PmfInputs, b \in PmfInputs :
        /\ fn' = "greater_than"
        /\ args' = [a |-> a, b |-> b]
        /\ out' = greater_than(a, b)
    /\ UNCHANGED appVars

CallCdf ==
    /\ fn = "none"
    /\ \E pmf \in PmfInputs \cup SamplePmfs :
        /\ fn' = "cdf"
        /\ args' = [pmf |-> pmf]
        /\ out' = cdf(pmf)
    /\ UNCHANGED appVars

NextAlgebra == CallConvolve \/ CallConvolveMany \/ CallGreaterThan \/ CallCdf
SpecAlgebra == Init /\ [][NextAlgebra]_vars

----------------------------------------------------------------------------
(* Claims about the PMF algebra.                                           *)

\* P(tie): the sum over v of a[v] * b[v]
Tie(a, b) ==
    RSum([v \in Keys(a) \cap Keys(b) |-> RMul(Prob(a, v), Prob(b, v))],
         Keys(a) \cap Keys(b))

\* C7: for PMFs a and b that each sum to 1,
\* greater_than(a,b) + greater_than(b,a) + P(tie) = 1; equal outcomes count
\* for neither side.
C7_GreaterThanComplement ==
    (fn = "greater_than" /\ Mass(args.a) = One /\ Mass(args.b) = One)
        => RAdd(RAdd(out, greater_than(args.b, args.a)), Tie(args.a, args.b)) = One

C7_Witness ==
    /\ fn = "greater_than"
    /\ Mass(args.a) = One
    /\ Mass(args.b) = One
    /\ RLess(Zero, Tie(args.a, args.b))
    /\ RLess(Zero, out)
    /\ RLess(Zero, greater_than(args.b, args.a))

Orders(n) == {p \in [1..n -> 1..n] : \A i, j \in 1..n : p[i] = p[j] => i = j}
Permuted(seq, p) == [i \in 1..Len(seq) |-> seq[p[i]]]

\* C8: convolve(a, b) = convolve(b, a), and convolve_many gives the same PMF
\* for every permutation of its list.
C8_ConvolutionOrderIrrelevant ==
    /\ fn = "convolve" => out = convolve(args.b, args.a)
    /\ fn = "convolve_many" =>
            \A p \in Orders(Len(args.pmfs)) :
                convolve_many(Permuted(args.pmfs, p)) = out

C8_Witness ==
    /\ fn = "convolve_many"
    /\ Len(args.pmfs) = 3
    /\ args.pmfs[1] # args.pmfs[2]
    /\ args.pmfs[2] # args.pmfs[3]
    /\ args.pmfs[1] # args.pmfs[3]
    /\ Mass(out) = One

\* C9: cdf(pmf) has one pair per outcome of the PMF, values strictly
\* increasing, cumulative probabilities non-decreasing, the i-th equal to the
\* mass of all outcomes <= the i-th value, the last equal to the total mass.
C9_CdfShape ==
    fn = "cdf" =>
        LET pmf == args.pmf
            n == Len(out)
        IN  /\ n = Cardinality(Keys(pmf))
            /\ {out[i][1] : i \in 1..n} = Keys(pmf)
            /\ \A i \in 1..n : \A j \in 1..n : i < j => out[i][1] < out[j][1]
            /\ \A i \in 1..n : \A j \in 1..n : i < j => RLeq(out[i][2], out[j][2])
            /\ \A i \in 1..n :
                    out[i][2] = RSum(Probs(pmf), {v \in Keys(pmf) : v <= out[i][1]})
            /\ n > 0 => out[n][2] = Mass(pmf)

C9_Witness ==
    /\ fn = "cdf"
    /\ Len(out) >= 3
    /\ out[Len(out)][2] = One
    /\ RLess(out[1][2], out[2][2])

----------------------------------------------------------------------------
(* Calls of the build aggregator.                                          *)

\* impl Default for Attack
DefaultAttack == [ab |-> 10, flat |-> 5, dice |-> <<2, 0, 1, 0, 0>>]

\* denominator bits of a build's PMF: its attacks', each with the d20 weights
RECURSIVE AttacksBits(_, _, _)
AttacksBits(attacks, savage, i) ==
    IF i > Len(attacks) THEN 0
    ELSE AttackBits(attacks[i], savage) + 5 + AttacksBits(attacks, savage, i + 1)
BuildBits(build) == AttacksBits(build.attacks, build.savage, 1)

\* a build is within what the exact arithmetic carries: every attack, and the
\* build's mean (seven bits of damage value)
BuildTractable(build) ==
    /\ \A i \in 1..Len(build.attacks) :
            AttackBits(build.attacks[i], build.savage) <= ArithBits
    /\ BuildBits(build) + 7 <= PairBits
\* so are two builds and their comparison
Tractable(a, b) ==
    /\ BuildTractable(a)
    /\ BuildTractable(b)
    /\ BuildBits(a) + BuildBits(b) <= PairBits

BuildAttackInputs ==
    {InitAttack, DefaultAttack, [ab |-> 12, flat |-> 0, dice |-> <<0, 0, 0, 0, 0>>]}
BuildInputs ==
    {bd \in [attacks : UNION {[1..n -> BuildAttackInputs] : n \in 0..MaxAttacks},
             savage : BOOLEAN, crit_enabled : BOOLEAN] : BuildTractable(bd)}
SimAcInputs == {15, 18}
MinDmgInputs == {0, 5, 15}

CallCalcBuildStats ==
    /\ fn = "none"
    /\ \E build \in BuildInputs, ac \in SimAcInputs, dmg \in MinDmgInputs :
        /\ fn' = "calc_build_stats"
        /\ args' = [build |-> build, sim_ac |-> ac, desired_min_dmg |-> dmg]
        /\ out' = calc_build_stats(build, ac, dmg)
    /\ UNCHANGED appVars

CallCalcBuildMeans ==
    /\ fn = "none"
    /\ \E build \in BuildInputs :
        /\ fn' = "calc_build_means"
        /\ args' = [build |-> build]
        /\ out' = calc_build_means(build)
    /\ UNCHANGED appVars

NextBuild == CallCalcBuildStats \/ CallCalcBuildMeans
SpecBuild == Init /\ [][NextBuild]_vars

\* C10: a build with zero attacks never fails and both call sites agree on
\* the empty mapping: calc_build_stats returns the empty PMF, empty cdf, mean
\* 0, std_dev 0, min_dmg_chance 0; calc_build_means returns mean 0 per AC.
C10_EmptyBuildPolicy ==
    /\ (fn = "calc_build_stats" /\ args.build.attacks = <<>>) =>
            /\ out.pmf = EmptyPMF
            /\ out.cdf = <<>>
            /\ out.mean = Zero
            /\ StdDevIsZero(out.std_dev)
            /\ out.min_dmg_chance = Zero
    /\ (fn = "calc_build_means" /\ args.build.attacks = <<>>) =>
            /\ Len(out) = AC_MAX - AC_MIN
            /\ \A i \in 1..Len(out) : out[i] = Zero

C10_Witness ==
    /\ fn = "calc_build_means"
    /\ args.build.attacks = <<>>
    /\ Len(out) = 14

NextMonotone == CallHitChance \/ CallCalcBuildMeans
SpecMonotone == Init /\ [][NextMonotone]_vars

\* every attack of the build rolls at least one die
AllPoolsNonEmpty(build) ==
    \A i \in 1..Len(build.attacks) : NonEmptyPool(build.attacks[i])

\* C14: a higher armor class never helps: hit_chance(ab, ac + 1) <=
\* hit_chance(ab, ac) for every ab and ac, and the means calc_build_means
\* returns for AC 10, 11, ..., 23 (14 entries) are non-increasing for every
\* build whose attacks all have a non-empty dice pool.
C14_HigherAcNeverHelps ==
    /\ fn = "hit_chance" => RLeq(hit_chance(args.ab, args.ac + 1), out)
    /\ (fn = "calc_build_means" /\ AllPoolsNonEmpty(args.build)) =>
            /\ Len(out) = AC_MAX - AC_MIN
            /\ \A i \in 1..(Len(out) - 1) : RLeq(out[i + 1], out[i])

----------------------------------------------------------------------------
(* main.rs: the application.  One action per kind of input a frame handles; *)
(* every action is the whole of Dnd::update for that frame.                *)

Side == {"a", "b"}

\* the block of Dnd::update that stores a build's own statistics
Restat(build, ac, dmg) ==
    The({[build EXCEPT !.pmf = pmf,
                       !.cdf = cdf(pmf),
                       !.mean = mean(pmf),
                       !.std_dev = std_dev(pmf),
                       !.min_dmg_chance = chance_at_least(pmf, dmg)] :
            pmf \in {BuildPmf(build, ac)}})

\* build A compared with the PMF build B had before this recomputation
UpdateStatsEarlyCompare(a, b, ac, dmg) ==
    The({<<[a1 EXCEPT !.greater_then_chance = greater_than(a1.pmf, b.pmf)],
           [b1 EXCEPT !.greater_then_chance = greater_than(b1.pmf, a1.pmf)]>> :
            a1 \in {Restat(a, ac, dmg)}, b1 \in {Restat(b, ac, dmg)}})

\* the body of `if self.state_changed { ... }`, after the flag is cleared
UpdateStats(a, b, ac, dmg) ==
    The({<<[a1 EXCEPT !.greater_then_chance = greater_than(a1.pmf, b1.pmf)],
           [b1 EXCEPT !.greater_then_chance = greater_than(b1.pmf, a1.pmf)]>> :
            a1 \in {Restat(a, ac, dmg)}, b1 \in {Restat(b, ac, dmg)}})

\* the two builds as the frame's widgets find them
Recomputed ==
    IF state_changed THEN UpdateStats(build_a, build_b, sim_ac, desired_min_dmg)
    ELSE <<build_a, build_b>>

\* the pair of builds with the one on `side` replaced
WithSide(cur, side, build) == IF side = "a" THEN <<build, cur[2]>> ELSE <<cur[1], build>>
Of(cur, side) == IF side = "a" THEN cur[1] ELSE cur[2]

\* the flag is not cleared by the recomputation
FrameEndsFlagKept(ev, builds, ac, dmg, changed) ==
    /\ Tractable(builds[1], builds[2])
    /\ build_a' = builds[1]
    /\ build_b' = builds[2]
    /\ sim_ac' = ac
    /\ desired_min_dmg' = dmg
    /\ state_changed' = (state_changed \/ changed)
    /\ last' = [ev |-> ev, recomputed |-> state_changed]
    /\ edits' = IF ev = "idle" THEN edits ELSE edits + 1
    /\ UNCHANGED callVars

\* the end of a frame: the state it leaves.  state_changed was cleared by the
\* recomputation if it was set, and is set again iff a widget reported a change
FrameEnds(ev, builds, ac, dmg, changed) ==
    /\ Tractable(builds[1], builds[2])
    /\ build_a' = builds[1]
    /\ build_b' = builds[2]
    /\ sim_ac' = ac
    /\ desired_min_dmg' = dmg
    /\ state_changed' = changed
    /\ last' = [ev |-> ev, recomputed |-> state_changed]
    /\ edits' = IF ev = "idle" THEN edits ELSE edits + 1
    /\ UNCHANGED callVars

AbEdits == {10, 12}
FlatEdits == {4, 5}
SimAcEdits == {15, 18}
MinDmgEdits == {5, 15}

RemoveAt(seq, idx) == [i \in 1..(Len(seq) - 1) |-> IF i < idx THEN seq[i] ELSE seq[i + 1]]

\* a frame without input
FrameIdle ==
    \E cur \in {Recomputed} :
        FrameEnds("idle", cur, sim_ac, desired_min_dmg, FALSE)

\* "Add attack" clicked: the last attack is cloned, or the default pushed
FrameAddAttack ==
    /\ edits < MaxEdits
    /\ \E cur \in {Recomputed} :
       \E side \in Side :
        LET build == Of(cur, side)
            n == Len(build.attacks)
            prev_or_def == IF n = 0 THEN DefaultAttack ELSE build.attacks[n]
        IN  /\ n < MaxAttacks
            /\ FrameEnds("add", WithSide(cur, side, [build EXCEPT !.attacks = Append(@, prev_or_def)]),
                         sim_ac, desired_min_dmg, FALSE)

\* "Remove" clicked on attack idx
FrameRemoveAttack ==
    /\ edits < MaxEdits
    /\ \E cur \in {Recomputed} :
       \E side \in Side :
        LET build == Of(cur, side) IN
        \E idx \in 1..Len(build.attacks) :
            FrameEnds("remove", WithSide(cur, side, [build EXCEPT !.attacks = RemoveAt(@, idx)]),
                      sim_ac, desired_min_dmg, FALSE)

\* the AB drag value of attack i changed
FrameEditAb ==
    /\ edits < MaxEdits
    /\ \E cur \in {Recomputed} :
       \E side \in Side, v \in AbEdits :
        LET build == Of(cur, side) IN
        \E i \in 1..Len(build.attacks) :
            /\ v # build.attacks[i].ab
            /\ FrameEnds("ab", WithSide(cur, side, [build EXCEPT !.attacks[i].ab = v]),
                         sim_ac, desired_min_dmg, TRUE)

\* the flat damage drag value of attack i changed
FrameEditFlat ==
    /\ edits < MaxEdits
    /\ \E cur \in {Recomputed} :
       \E side \in Side, v \in FlatEdits :
        LET build == Of(cur, side) IN
        \E i \in 1..Len(build.attacks) :
            /\ v # build.attacks[i].flat
            /\ FrameEnds("flat", WithSide(cur, side, [build EXCEPT !.attacks[i].flat = v]),
                         sim_ac, desired_min_dmg, TRUE)

\* the count drag value of die d of attack i changed
FrameEditDie ==
    /\ edits < MaxEdits
    /\ \E cur \in {Recomputed} :
       \E side \in Side, d \in 1..NDice, v \in 0..MaxCount :
        LET build == Of(cur, side) IN
        \E i \in 1..Len(build.attacks) :
            /\ v # build.attacks[i].dice[d]
            /\ FrameEnds("die", WithSide(cur, side, [build EXCEPT !.attacks[i].dice[d] = v]),
                         sim_ac, desired_min_dmg, TRUE)

\* the "Crits Enabled" checkbox toggled
FrameToggleCrit ==
    /\ edits < MaxEdits
    /\ \E cur \in {Recomputed} :
       \E side \in Side :
        LET build == Of(cur, side) IN
        FrameEnds("crit", WithSide(cur, side, [build EXCEPT !.crit_enabled = ~@]),
                  sim_ac, desired_min_dmg, TRUE)

\* the "Savage Attacker" checkbox toggled
FrameToggleSavage ==
    /\ edits < MaxEdits
    /\ \E cur \in {Recomputed} :
       \E side \in Side :
        LET build == Of(cur, side) IN
        FrameEnds("savage", WithSide(cur, side, [build EXCEPT !.savage = ~@]),
                  sim_ac, desired_min_dmg, TRUE)

\* the "Sim AC" drag value changed
FrameEditSimAc ==
    /\ edits < MaxEdits
    /\ \E v \in SimAcEdits, cur \in {Recomputed} :
        /\ v # sim_ac
        /\ FrameEnds("sim_ac", cur, v, desired_min_dmg, TRUE)

\* the "Min desired dmg" drag value changed
FrameEditMinDmg ==
    /\ edits < MaxEdits
    /\ \E v \in MinDmgEdits, cur \in {Recomputed} :
        /\ v # desired_min_dmg
        /\ FrameEnds("min_dmg", cur, sim_ac, v, TRUE)

Next ==
    \/ FrameIdle
    \/ FrameAddAttack
    \/ FrameRemoveAttack
    \/ FrameEditAb
    \/ FrameEditFlat
    \/ FrameEditDie
    \/ FrameToggleCrit
    \/ FrameToggleSavage
    \/ FrameEditSimAc
    \/ FrameEditMinDmg

Spec == Init /\ [][Next]_vars

----------------------------------------------------------------------------
(* Claims about the application.                                           *)

\* the stored statistics of a build are those of its current attacks and
\* flags at the current sim_ac and desired_min_dmg
StatsCurrent(build) ==
    LET pmf == BuildPmf(build, sim_ac)
    IN  /\ build.pmf = pmf
        /\ build.cdf = cdf(pmf)
        /\ build.mean = mean(pmf)
        /\ build.std_dev = std_dev(pmf)
        /\ build.min_dmg_chance = chance_at_least(pmf, desired_min_dmg)

\* C4: every edit sets the changed flag, adding and removing an attack
\* included: after any edits and one frame without input, each build's stored
\* statistics are those computed from its current attacks, flags, sim_ac and
\* desired_min_dmg.
C4_EditsReflectedAfterTick ==
    last.ev = "idle" => (StatsCurrent(build_a) /\ StatsCurrent(build_b))

\* C5: in every reachable state the stored greater_then_chance of A is
\* greater_than(A.pmf, B.pmf) and that of B is greater_than(B.pmf, A.pmf), for
\* the PMFs stored now.
C5_ComparisonMatchesStoredPmfs ==
    /\ build_a.greater_then_chance = greater_than(build_a.pmf, build_b.pmf)
    /\ build_b.greater_then_chance = greater_than(build_b.pmf, build_a.pmf)

\* a second recomputation replaced a PMF and the two builds differ
C5_Witness ==
    /\ edits >= 2
    /\ last.recomputed
    /\ build_a.pmf # build_b.pmf
    /\ RLess(Zero, build_a.greater_then_chance)
    /\ build_a.greater_then_chance # build_b.greater_then_chance

\* the statistics a build stores
Stats(build) ==
    [pmf |-> build.pmf, cdf |-> build.cdf, mean |-> build.mean,
     std_dev |-> build.std_dev, greater_then_chance |-> build.greater_then_chance,
     min_dmg_chance |-> build.min_dmg_chance]

\* the statistics of `build` against `other` at armor class ac and threshold dmg
FreshStats(build, other, ac, dmg) ==
    The({[pmf |-> p, cdf |-> cdf(p), mean |-> mean(p), std_dev |-> std_dev(p),
          greater_then_chance |-> greater_than(p, q),
          min_dmg_chance |-> chance_at_least(p, dmg)] :
            p \in {BuildPmf(build, ac)}, q \in {BuildPmf(other, ac)}})

\* the inputs whose widget reports a change
FlaggedEdits == {"ab", "flat", "die", "crit", "savage", "sim_ac", "min_dmg"}

\* C11: in every frame, if the flag is set at the start both builds' stored
\* statistics become those of the builds, sim_ac and desired_min_dmg as they
\* are at the start of the frame, otherwise the stored statistics stay as they
\* are; and the flag is set at the end exactly when the frame handled an input
\* whose widget reports a change (cleared first, set again by that edit).
C11_TickProtocol ==
    [][/\ state_changed =>
            /\ Stats(build_a') = FreshStats(build_a, build_b, sim_ac, desired_min_dmg)
            /\ Stats(build_b') = FreshStats(build_b, build_a, sim_ac, desired_min_dmg)
       /\ ~state_changed =>
            /\ Stats(build_a') = Stats(build_a)
            /\ Stats(build_b') = Stats(build_b)
       /\ state_changed' = (last'.ev \in FlaggedEdits)]_vars

\* a frame recomputed, then handled an edit of sim_ac that set the flag again,
\* so that the stored statistics are those of the armor class before the edit
C11_Witness ==
    /\ last.recomputed
    /\ last.ev = "sim_ac"
    /\ state_changed
    /\ edits >= 2
    /\ build_a.pmf # BuildPmf(build_a, sim_ac)

=============================================================================
